---- MODULE Spec2Model ----
(***************************************************************************)
(* PublishingTrends: the ingestion pipeline of src/ingestion/scraper.py    *)
(* (plan, two fetch passes through one shared semaphore, serialization of  *)
(* every page to <page>.json) and the merge of src/ingestion/utils.py      *)
(* (join_data_files).                                                      *)
(*                                                                         *)
(* Strings that the code parses or formats (page numbers, file names) are  *)
(* sequences of one-character strings, so that str(), int(), str.replace   *)
(* and re.match are computed as the code computes them.                    *)
(***************************************************************************)
EXTENDS Integers, Sequences, FiniteSets, TLC

(***************************************************************************)
(* Bounds of the model.                                                    *)
(***************************************************************************)
\* limiter sizes explored: 1..MaxK
MaxK == 2
\* pages of range(1, planned_num_pages + 1) whose fetch the model follows
MaxTracked == 2

\* The page numbers the model can follow, ascending: 1 and 2, 10 (two digits,
\* before 2 in lexicographic order), 1000 (four digits).
SamplePages == <<1, 2, 10, 1000>>

\* How many products one page response can list.
ProductCounts == 0..2

\* Totals that the reconnaissance response can report (2, 10 and 1000 pages).
NumBooksChoices == {60, 480, 49999}

(***************************************************************************)
(* Text: characters, str(n), int(s), str.replace, re.match                 *)
(***************************************************************************)
DigitChars == <<"0", "1", "2", "3", "4", "5", "6", "7", "8", "9">>

IsDigit(c) == \E d \in 1..10 : DigitChars[d] = c

DigitVal(c) == (CHOOSE d \in 1..10 : DigitChars[d] = c) - 1

\* str(n) of a non-negative integer: its decimal digits.
RECURSIVE str(_)
str(n) == IF n < 10 THEN <<DigitChars[n + 1]>>
          ELSE str(n \div 10) \o <<DigitChars[(n % 10) + 1]>>

\* int(s) raises ValueError on anything but decimal digits (the names met
\* here carry no sign, blank or underscore); ValueError is the result -1.
ValueError == 0 - 1

RECURSIVE intAcc(_, _)
intAcc(s, acc) == IF s = <<>> THEN acc
                  ELSE IF ~IsDigit(Head(s)) THEN ValueError
                  ELSE intAcc(Tail(s), acc * 10 + DigitVal(Head(s)))

int(s) == IF s = <<>> THEN ValueError ELSE intAcc(s, 0)

DotJson == <<".", "j", "s", "o", "n">>

HasPrefix(s, pre) == Len(s) >= Len(pre) /\ SubSeq(s, 1, Len(pre)) = pre

\* s.replace('.json', ''): every occurrence, left to right.
RECURSIVE ReplaceDotJson(_)
ReplaceDotJson(s) ==
    IF s = <<>> THEN <<>>
    ELSE IF HasPrefix(s, DotJson)
         THEN ReplaceDotJson(SubSeq(s, Len(DotJson) + 1, Len(s)))
         ELSE <<Head(s)>> \o ReplaceDotJson(Tail(s))

\* re.match('[0-9]{1,3}.json', name): anchored at the start only, one to
\* three digits, then any one character (the dot is not escaped), then json.
ReMatch(name) ==
    \E k \in 1..3 :
        /\ Len(name) >= k + 5
        /\ \A j \in 1..k : IsDigit(name[j])
        /\ name[k + 1] # "\n"
        /\ SubSeq(name, k + 2, k + 5) = <<"j", "s", "o", "n">>

(***************************************************************************)
(* ScraperParams                                                           *)
(***************************************************************************)
\* The module-level entries_per_page of the script (line 151).
entries_per_page == 50

\* sp.entries_per_page: the field of the ScraperParams handed to plan, to
\* main and to serialize_results.
VARIABLE sp_entries_per_page

\* A URL is its query string, as the list of (key, value) pairs that
\* urlencode writes; only rows and page vary.
build_book_page_url(page_num) ==
    << <<"rows", str(sp_entries_per_page)>>, <<"page", str(page_num)>> >>

\* parse_qs(query)['page'][0]: the first value given for the key page, a
\* string.
page_num_from_url(url) ==
    LET i == CHOOSE j \in 1..Len(url) :
                 /\ url[j][1] = "page"
                 /\ \A h \in 1..(j - 1) : url[h][1] # "page"
    IN  url[i][2]

\* The artifact of a page: Path(json_dir, f'{page_num}.json').
page_path(url) == page_num_from_url(url) \o DotJson

\* dest_fname: data_dir / 'dataset.json', in the directory of the artifacts.
dest_fname == <<"d", "a", "t", "a", "s", "e", "t">> \o DotJson

(***************************************************************************)
(* State                                                                   *)
(***************************************************************************)
VARIABLES
    mainPc,             \* position of the script: plan, first_run, second_run, join, done, aborted
    limit,              \* K, the value the semaphore is created with
    sem,                \* the semaphore's counter: free slots
    num_books,          \* total reported by the reconnaissance response
    planned_num_pages,  \* ceil(num_books / entries_per_page)
    tracked,            \* the pages of the range whose fetch the model follows
    urls,               \* the batch handed to main()
    tasks,              \* one retrieve_book_page coroutine per URL of the batch
    results,            \* what main() returned last
    missing_pages,      \* URLs whose page-level fetch failed in the last pass
    b_count,            \* book count
    c_count,            \* cover count
    files,              \* data_dir: file name -> content
    r,                  \* what join_data_files returned
    first_results,      \* history: what the first run returned
    written,            \* history: the artifacts serialize_results wrote in this run
    covers_fetched,     \* history: cover fetches that ended with the file written
    dest_before,        \* history: dest_fname's content when join_data_files was called
    serialized,         \* history: the results handed to the last serialize_results call
    plan_error,         \* history: the reconnaissance call failed
    fetched,            \* history: URL -> page requests issued for it in this execution
    passes,             \* history: how many times main() was run
    join_fault          \* history: the fault met by the join_data_files call

vars == <<mainPc, limit, sem, num_books, planned_num_pages, tracked, urls, tasks,
          results, missing_pages, b_count, c_count, files, r, first_results,
          written, covers_fetched, dest_before, sp_entries_per_page, serialized,
          plan_error, fetched, passes, join_fault>>

\* A file holds a JSON text: the records of a complete array, or a text cut
\* short (whole = FALSE), which json.load refuses.
FileOf(recs) == [recs |-> recs, whole |-> TRUE]

\* What a path holds, for comparing a file before and after a call.
NoFile == [present |-> FALSE, recs |-> <<>>, whole |-> FALSE]

Snapshot(fs, name) ==
    IF name \in DOMAIN fs
    THEN [present |-> TRUE, recs |-> fs[name].recs, whole |-> fs[name].whole]
    ELSE NoFile

EmptyDir == [n \in {} |-> FileOf(<<>>)]

\* open(path, 'w') followed by a completed json.dump.
\* (Variant: open(path, 'a'), the text is added to what the file held.)
WriteFile_append(fs, name, recs) ==
    [n \in (DOMAIN fs) \cup {name} |->
        IF n = name
        THEN FileOf((IF name \in DOMAIN fs THEN fs[name].recs ELSE <<>>) \o recs)
        ELSE fs[n]]

WriteFile(fs, name, recs) ==
    [n \in (DOMAIN fs) \cup {name} |-> IF n = name THEN FileOf(recs) ELSE fs[n]]

\* A BookRecord: the product's place in the upstream listing (page, index)
\* and the run that fetched it (0: an earlier execution of the script).
BookRecord(p, i, run) == <<p, i, run>>

RecordPage(rec) == rec[1]

Min(S) == CHOOSE x \in S : \A y \in S : x <= y

RECURSIVE SortedSeq(_)
SortedSeq(S) == IF S = {} THEN <<>> ELSE <<Min(S)>> \o SortedSeq(S \ {Min(S)})

\* data_dir as an earlier execution of the script left it (mkdir exist_ok):
\* one artifact per page of that execution, each with one record, and the
\* merged dataset.
RECURSIVE StaleArtifacts(_)
StaleArtifacts(pages) ==
    IF pages = {} THEN EmptyDir
    ELSE LET p == CHOOSE x \in pages : TRUE
         IN  WriteFile(StaleArtifacts(pages \ {p}), str(p) \o DotJson,
                       <<BookRecord(p, 1, 0)>>)

StaleDir(pages) ==
    WriteFile(StaleArtifacts(pages), dest_fname,
              [i \in 1..Len(SortedSeq({p \in pages : p < 1000})) |->
                  BookRecord(SortedSeq({p \in pages : p < 1000})[i], 1, 0)])

\* The model follows MaxTracked neighbouring sample pages.
TrackedChoices ==
    LET w == IF MaxTracked < Len(SamplePages) THEN MaxTracked ELSE Len(SamplePages)
    IN  {{SamplePages[j] : j \in i..(i + w - 1)} : i \in 1..(Len(SamplePages) - w + 1)}

Init ==
    /\ mainPc = "plan"
    /\ limit \in 1..MaxK
    /\ sem = limit
    /\ num_books = 0
    /\ planned_num_pages = 0
    /\ tracked \in TrackedChoices
    /\ urls = <<>>
    /\ tasks = <<>>
    /\ results = <<>>
    /\ missing_pages = <<>>
    /\ b_count = 0
    /\ c_count = 0
    /\ files \in {EmptyDir, StaleDir(tracked)}
    /\ r = FALSE
    /\ first_results = <<>>
    /\ written = {}
    /\ covers_fetched = 0
    /\ dest_before = NoFile
    /\ sp_entries_per_page = entries_per_page
    /\ serialized = <<>>
    /\ plan_error = FALSE
    /\ fetched = <<>>
    /\ passes = 0
    /\ join_fault = "none"

(***************************************************************************)
(* plan() and the start of the first run                                   *)
(***************************************************************************)
\* math.ceil(num_books / entries_per_page); plan reads the module-level
\* entries_per_page.
ceil_div(a, b) == (a + b - 1) \div b

\* range(1, planned_num_pages + 1), as far as the model follows it.
PageRange(planned) == SortedSeq({p \in tracked : 1 <= p /\ p <= planned})

\* main(): one retrieve_book_page coroutine per URL, none started yet.
\* products and responded are history: what the page response listed, and
\* whether there was one.
NewTask(url) ==
    [pc |-> "start", url |-> url, elems |-> <<>>, is_ok |-> FALSE,
     products |-> <<>>, k |-> 0, responded |-> FALSE]

Launch(batch) == [t \in 1..Len(batch) |-> NewTask(batch[t])]

\* Lines 119-130, the else branch: plan returns (num_books, pages) for the
\* total that the response reports; the page size is the module-level
\* entries_per_page, whatever params holds.
plan(total) == <<total, ceil_div(total, entries_per_page)>>

\* Lines 153-162: the reconnaissance response reports total; the page URLs
\* are built and handed to main().
PlanOk(total) ==
    /\ mainPc = "plan"
    /\ num_books' = plan(total)[1]
    /\ planned_num_pages' = plan(total)[2]
    /\ urls' = [i \in 1..Len(PageRange(planned_num_pages')) |->
                   build_book_page_url(PageRange(planned_num_pages')[i])]
    /\ tasks' = Launch(urls')
    /\ mainPc' = "first_run"
    /\ passes' = 1
    /\ fetched' = [u \in {urls'[i] : i \in 1..Len(urls')} |-> 0]
    /\ UNCHANGED <<limit, sem, tracked, results, missing_pages, b_count, c_count,
                   files, r, first_results, written, covers_fetched, dest_before,
                   sp_entries_per_page, serialized, plan_error, join_fault>>

\* (Variant of PlanFails: the failure is swallowed and the script goes on
\* with a default plan of one page.)
PlanFails_defaultPages ==
    /\ mainPc = "plan"
    /\ plan_error' = TRUE
    /\ num_books' = 0
    /\ planned_num_pages' = 1
    /\ urls' = <<build_book_page_url(1)>>
    /\ tasks' = Launch(urls')
    /\ mainPc' = "first_run"
    /\ passes' = 1
    /\ fetched' = [u \in {urls'[i] : i \in 1..Len(urls')} |-> 0]
    /\ UNCHANGED <<limit, sem, tracked, results, missing_pages, b_count, c_count,
                   files, r, first_results, written, covers_fetched, dest_before,
                   sp_entries_per_page, serialized, join_fault>>

\* Lines 127-130 and 153: on ClientConnectorError plan returns None and the
\* unpacking at line 153 raises; a response without data.total raises
\* KeyError out of plan. Either way the script ends there.
PlanFails ==
    /\ mainPc = "plan"
    /\ mainPc' = "aborted"
    /\ plan_error' = TRUE
    /\ UNCHANGED <<limit, sem, num_books, planned_num_pages, tracked, urls, tasks,
                   results, missing_pages, b_count, c_count, files, r,
                   first_results, written, covers_fetched, dest_before,
                   sp_entries_per_page, serialized, fetched, passes, join_fault>>

(***************************************************************************)
(* retrieve_book_page and retrieve_cover                                   *)
(***************************************************************************)
Running == mainPc \in {"first_run", "second_run"}

RunNo == IF mainPc = "first_run" THEN 1 ELSE 2

\* The page number a URL asks for, as the upstream reads it.
PageOf(url) == int(page_num_from_url(url))

\* async with sem: the coroutine goes on only when the counter is positive.
\* (Variant: it goes on whatever the counter.)
CanAcquire_noGuard == TRUE

CanAcquire == sem > 0

frame_fetch == <<mainPc, limit, num_books, planned_num_pages, tracked, urls, results,
                 missing_pages, b_count, c_count, files, r, first_results, written,
                 dest_before, sp_entries_per_page, serialized, plan_error, passes,
                 join_fault>>

\* Line 75: the page fetch takes its slot, then issues the page request
\* (line 80) and awaits the response.
AcquirePage(t) ==
    /\ Running
    /\ t \in DOMAIN tasks
    /\ tasks[t].pc = "start"
    /\ CanAcquire
    /\ sem' = sem - 1
    /\ tasks' = [tasks EXCEPT ![t].pc = "page_req"]
    /\ fetched' = [fetched EXCEPT ![tasks[t].url] = @ + 1]
    /\ UNCHANGED <<frame_fetch, covers_fetched>>

\* (Variant of PageConnectError: the slot is released and the page fetch
\* starts over within the same pass.)
PageConnectError_retry(t) ==
    /\ Running
    /\ t \in DOMAIN tasks
    /\ tasks[t].pc = "page_req"
    /\ sem' = sem + 1
    /\ tasks' = [tasks EXCEPT ![t].pc = "start"]
    /\ UNCHANGED <<frame_fetch, covers_fetched, fetched>>

\* Lines 98-102: ClientConnectorError on the page request: elems is still
\* empty, is_ok False; the slot is released on the way out.
PageConnectError(t) ==
    /\ Running
    /\ t \in DOMAIN tasks
    /\ tasks[t].pc = "page_req"
    /\ sem' = sem + 1
    /\ tasks' = [tasks EXCEPT ![t].pc = "done"]
    /\ UNCHANGED <<frame_fetch, covers_fetched, fetched>>

\* Lines 81-94: the response lists n products. With none, the loop body never
\* runs: is_ok = True and the slot is released. Otherwise the coroutine calls
\* retrieve_cover for the first product, still holding its slot.
PageResponse(t, n) ==
    /\ Running
    /\ t \in DOMAIN tasks
    /\ tasks[t].pc = "page_req"
    /\ LET listed == [i \in 1..n |-> BookRecord(PageOf(tasks[t].url), i, RunNo)]
       IN  IF n = 0
           THEN /\ tasks' = [tasks EXCEPT ![t].pc = "done", ![t].is_ok = TRUE,
                                          ![t].responded = TRUE]
                /\ sem' = sem + 1
           ELSE /\ tasks' = [tasks EXCEPT ![t].pc = "cover_wait",
                                          ![t].products = listed, ![t].k = 1,
                                          ![t].responded = TRUE]
                /\ sem' = sem
    /\ UNCHANGED <<frame_fetch, covers_fetched, fetched>>

\* Line 54: retrieve_cover takes a slot of the same semaphore, then issues
\* the cover request (line 57) and awaits the response.
AcquireCover(t) ==
    /\ Running
    /\ t \in DOMAIN tasks
    /\ tasks[t].pc = "cover_wait"
    /\ CanAcquire
    /\ sem' = sem - 1
    /\ tasks' = [tasks EXCEPT ![t].pc = "cover_req"]
    /\ UNCHANGED <<frame_fetch, covers_fetched, fetched>>

\* The ways a cover request ends: status 200 and the file written, another
\* status, ClientConnectorError.
CoverOutcomes == {"written", "not_200", "connect_error"}

\* Lines 53-67: is_ok becomes True only after the file is written.
retrieve_cover(outcome) == outcome = "written"

\* int(cover_status)
int_of_bool(b) == IF b THEN 1 ELSE 0

\* Line 96: elems.append((data, int(cover_status))).
\* (Variant: only the records whose cover was fetched are appended.)
AppendElem_onlyFetched(elems, data, cover_status) ==
    IF cover_status THEN Append(elems, <<data, 1>>) ELSE elems

AppendElem(elems, data, cover_status) ==
    Append(elems, <<data, int_of_bool(cover_status)>>)

\* Lines 57-67 and 95-102: the cover request ends, retrieve_cover releases its
\* slot and returns; the record is appended; after the last product is_ok = True
\* and the page's own slot is released.
CoverResponse(t, outcome) ==
    /\ Running
    /\ t \in DOMAIN tasks
    /\ tasks[t].pc = "cover_req"
    /\ LET tk == tasks[t]
           status == retrieve_cover(outcome)
           grown == AppendElem(tk.elems, tk.products[tk.k], status)
       IN  /\ covers_fetched' = covers_fetched + int_of_bool(outcome = "written")
           /\ IF tk.k = Len(tk.products)
              THEN /\ tasks' = [tasks EXCEPT ![t].pc = "done", ![t].elems = grown,
                                             ![t].is_ok = TRUE]
                   /\ sem' = sem + 2
              ELSE /\ tasks' = [tasks EXCEPT ![t].pc = "cover_wait",
                                             ![t].elems = grown, ![t].k = tk.k + 1]
                   /\ sem' = sem + 1
    /\ UNCHANGED <<frame_fetch, fetched>>

(***************************************************************************)
(* serialize_results                                                       *)
(***************************************************************************)
\* A result is the tuple (elems, url, is_ok) of line 102.
ElemsOf(res) == res[1]
UrlOf(res) == res[2]
OkOf(res) == res[3]

\* Line 110: serialize_data = [r[content_i] for r in res].
serialize_data(elems) == [i \in 1..Len(elems) |-> elems[i][1]]

RECURSIVE SumStatuses(_)
SumStatuses(elems) ==
    IF elems = <<>> THEN 0 ELSE elems[1][2] + SumStatuses(Tail(elems))

\* Line 114: book_count += len(serialize_data).
\* (Variant: = instead of +=.)
book_count_step_fromZero(elems, book_count) == Len(serialize_data(elems))

book_count_step(elems, book_count) == book_count + Len(serialize_data(elems))

\* Line 115: cover_count += sum of the cover statuses.
\* (Variant: one per record.)
cover_count_step_perRecord(elems, cover_count) == cover_count + Len(elems)

cover_count_step(elems, cover_count) == cover_count + SumStatuses(elems)

\* Lines 107-112: one artifact per result, named by the page number read back
\* from the URL, holding the records without their cover flags.
RECURSIVE serialize_files(_, _)
serialize_files(fs, rs) ==
    IF rs = <<>> THEN fs
    ELSE serialize_files(
             WriteFile(fs, page_path(UrlOf(Head(rs))), serialize_data(ElemsOf(Head(rs)))),
             Tail(rs))

RECURSIVE serialize_book_count(_, _)
serialize_book_count(rs, book_count) ==
    IF rs = <<>> THEN book_count
    ELSE serialize_book_count(Tail(rs), book_count_step(ElemsOf(Head(rs)), book_count))

RECURSIVE serialize_cover_count(_, _)
serialize_cover_count(rs, cover_count) ==
    IF rs = <<>> THEN cover_count
    ELSE serialize_cover_count(Tail(rs), cover_count_step(ElemsOf(Head(rs)), cover_count))

SerializedNames(rs) == {page_path(UrlOf(rs[i])) : i \in 1..Len(rs)}

(***************************************************************************)
(* The script: first run, second run                                       *)
(***************************************************************************)
AllDone == \A t \in DOMAIN tasks : tasks[t].pc = "done"

\* tqdm.gather: the outcomes, in the order of the URLs.
Gathered == [t \in 1..Len(tasks) |-> <<tasks[t].elems, tasks[t].url, tasks[t].is_ok>>]

IsOk(res) == OkOf(res)

NotOk(res) == ~OkOf(res)

UrlsOf(rs) == [i \in 1..Len(rs) |-> UrlOf(rs[i])]

\* (Variant of MissingOf: every URL of the batch counts as missing.)
MissingOf_everyUrl(rs) == UrlsOf(rs)

\* Lines 167 and 176: missing_pages = [res[url_idx] for res in results if not res[is_ok_idx]].
MissingOf(rs) == UrlsOf(SelectSeq(rs, NotOk))

\* Line 171 hands every result of the first run to serialize_results.
\* (Variant: only the retrieved ones.)
FirstSerialized_retrievedOnly(rs) == SelectSeq(rs, IsOk)

FirstSerialized(rs) == rs

\* Line 175: retrieved_pages = [res for res in results if res[is_ok_idx]],
\* which line 177 hands to serialize_results.
SecondSerialized(rs) == SelectSeq(rs, IsOk)

\* Lines 162-174: main() returns; the results are partitioned and serialized
\* with counts starting from zero; with pages missing, the second run starts
\* on the missing URLs, otherwise the script goes on to the merge.
FirstRunDone ==
    /\ mainPc = "first_run"
    /\ AllDone
    /\ results' = Gathered
    /\ first_results' = results'
    /\ missing_pages' = MissingOf(results')
    /\ files' = serialize_files(files, FirstSerialized(results'))
    /\ written' = written \cup SerializedNames(FirstSerialized(results'))
    /\ b_count' = serialize_book_count(FirstSerialized(results'), 0)
    /\ c_count' = serialize_cover_count(FirstSerialized(results'), 0)
    /\ serialized' = FirstSerialized(results')
    /\ IF missing_pages' # <<>>
       THEN /\ urls' = missing_pages'
            /\ tasks' = Launch(urls')
            /\ mainPc' = "second_run"
            /\ passes' = passes + 1
       ELSE /\ urls' = urls
            /\ tasks' = <<>>
            /\ mainPc' = "join"
            /\ passes' = passes
    /\ UNCHANGED <<limit, sem, num_books, planned_num_pages, tracked, r,
                   covers_fetched, dest_before, sp_entries_per_page, plan_error,
                   fetched, join_fault>>

\* (Variant of SecondRunDone: while pages are still missing, another run is
\* started on them.)
SecondRunDone_retryAgain ==
    /\ mainPc = "second_run"
    /\ AllDone
    /\ results' = Gathered
    /\ missing_pages' = MissingOf(results')
    /\ files' = serialize_files(files, SecondSerialized(results'))
    /\ written' = written \cup SerializedNames(SecondSerialized(results'))
    /\ b_count' = serialize_book_count(SecondSerialized(results'), b_count)
    /\ c_count' = serialize_cover_count(SecondSerialized(results'), c_count)
    /\ serialized' = SecondSerialized(results')
    /\ IF missing_pages' # <<>>
       THEN /\ urls' = missing_pages'
            /\ tasks' = Launch(urls')
            /\ mainPc' = "second_run"
            /\ passes' = passes + 1
       ELSE /\ urls' = urls
            /\ tasks' = <<>>
            /\ mainPc' = "join"
            /\ passes' = passes
    /\ UNCHANGED <<limit, sem, num_books, planned_num_pages, tracked, r,
                   first_results, covers_fetched, dest_before, sp_entries_per_page,
                   plan_error, fetched, join_fault>>

\* Lines 174-178: the second run returns; what it retrieved is serialized onto
\* the running counts, what it did not is reported.
SecondRunDone ==
    /\ mainPc = "second_run"
    /\ AllDone
    /\ results' = Gathered
    /\ missing_pages' = MissingOf(results')
    /\ files' = serialize_files(files, SecondSerialized(results'))
    /\ written' = written \cup SerializedNames(SecondSerialized(results'))
    /\ b_count' = serialize_book_count(SecondSerialized(results'), b_count)
    /\ c_count' = serialize_cover_count(SecondSerialized(results'), c_count)
    /\ serialized' = SecondSerialized(results')
    /\ tasks' = <<>>
    /\ mainPc' = "join"
    /\ UNCHANGED <<limit, sem, num_books, planned_num_pages, tracked, urls, r,
                   first_results, covers_fetched, dest_before, sp_entries_per_page,
                   plan_error, fetched, passes, join_fault>>

(***************************************************************************)
(* join_data_files                                                         *)
(***************************************************************************)
\* Line 9: int(fname.name.replace('.json', '')).
fname_to_int(name) == int(ReplaceDotJson(name))

\* Characters in ASCII order, for comparing names as strings.
Alphabet == <<".", "0", "1", "2", "3", "4", "5", "6", "7", "8", "9",
              "a", "b", "d", "e", "j", "k", "n", "o", "s", "t", "x">>

CharRank(c) == CHOOSE i \in 1..Len(Alphabet) : Alphabet[i] = c

RECURSIVE StrLeq(_, _)
StrLeq(a, b) ==
    IF a = <<>> THEN TRUE
    ELSE IF b = <<>> THEN FALSE
    ELSE IF Head(a) = Head(b) THEN StrLeq(Tail(a), Tail(b))
    ELSE CharRank(Head(a)) < CharRank(Head(b))

\* Line 13: the sort key is the number parsed from the name.
\* (Variant: the paths are compared as strings, sorted() without key.)
KeyLeq_byName(a, b) == StrLeq(a, b)

KeyLeq(a, b) == fname_to_int(a) <= fname_to_int(b)

\* Line 12: the names of the listing that re.match accepts.
Matches(name) == ReMatch(name)

\* sorted(): stable, so a name goes after every name whose key is not larger.
InsertByKey(sq, x) ==
    LET after == {j \in 1..Len(sq) : KeyLeq(sq[j], x)}
        at == IF after = {} THEN 0 ELSE CHOOSE j \in after : \A h \in after : h <= j
    IN  SubSeq(sq, 1, at) \o <<x>> \o SubSeq(sq, at + 1, Len(sq))

RECURSIVE sorted(_)
sorted(listing) ==
    IF listing = <<>> THEN <<>>
    ELSE InsertByKey(sorted(SubSeq(listing, 1, Len(listing) - 1)), listing[Len(listing)])

\* Lines 14-17: grouped_data += json.load(file_obj), in the sorted order.
RECURSIVE grouped_data(_, _)
grouped_data(fs, ordered) ==
    IF ordered = <<>> THEN <<>>
    ELSE fs[Head(ordered)].recs \o grouped_data(fs, Tail(ordered))

\* What the environment can do to one call: nothing, or an OSError raised by
\* iterdir, by reading an artifact, by opening the destination, by writing it.
Faults == {"none", "scan", "read", "open_dest", "write"}

\* Lines 5-24. listing is the order in which iterdir yields the accepted
\* names; on a fault while writing, cut records have reached the file that
\* open(dest_path, 'w') had emptied. The result is the directory afterwards
\* and is_ok.
join_data_files(fs, listing, dest_path, fault, cut) ==
    LET keys_ok == \A i \in 1..Len(listing) : fname_to_int(listing[i]) # ValueError
        ordered_json_paths == sorted(listing)
        loads_ok == \A i \in 1..Len(listing) : fs[listing[i]].whole
        grouped == grouped_data(fs, ordered_json_paths)
    IN  IF fault = "scan" \/ ~keys_ok \/ fault = "read" \/ ~loads_ok \/ fault = "open_dest"
        THEN [fs |-> fs, is_ok |-> FALSE]
        ELSE IF fault = "write"
        THEN [fs |-> [n \in (DOMAIN fs) \cup {dest_path} |->
                         IF n = dest_path
                         THEN [recs |-> SubSeq(grouped, 1, cut), whole |-> FALSE]
                         ELSE fs[n]],
              is_ok |-> FALSE]
        ELSE [fs |-> WriteFile(fs, dest_path, grouped), is_ok |-> TRUE]

RECURSIVE Perms(_)
Perms(S) ==
    IF S = {} THEN {<<>>}
    ELSE UNION {{<<x>> \o q : q \in Perms(S \ {x})} : x \in S}

\* Some listing of a set of names.
RECURSIVE SomeListing(_)
SomeListing(S) ==
    IF S = {} THEN <<>>
    ELSE LET x == CHOOSE y \in S : TRUE
         IN  <<x>> \o SomeListing(S \ {x})

RECURSIVE TotalRecs(_, _)
TotalRecs(fs, names) ==
    IF names = {} THEN 0
    ELSE LET n == CHOOSE x \in names : TRUE
         IN  Len(fs[n].recs) + TotalRecs(fs, names \ {n})

\* Lines 180-187: the merge, then the report.
Join ==
    /\ mainPc = "join"
    /\ \E listing \in Perms({n \in DOMAIN files : Matches(n)}), fault \in Faults :
         \E cut \in 0..TotalRecs(files, {listing[i] : i \in 1..Len(listing)}) :
            /\ fault = "read" => listing # <<>>
            /\ fault # "write" => cut = 0
            /\ LET out == join_data_files(files, listing, dest_fname, fault, cut)
               IN  /\ files' = out.fs
                   /\ r' = out.is_ok
                   /\ join_fault' = fault
    /\ dest_before' = Snapshot(files, dest_fname)
    /\ mainPc' = "done"
    /\ UNCHANGED <<limit, sem, num_books, planned_num_pages, tracked, urls, tasks,
                   results, missing_pages, b_count, c_count, first_results, written,
                   covers_fetched, sp_entries_per_page, serialized, plan_error,
                   fetched, passes>>

\* The totals whose page range holds a page that the model follows.
FollowedTotals ==
    {n \in NumBooksChoices : PageRange(ceil_div(n, entries_per_page)) # <<>>}

(***************************************************************************)
(* The specification                                                       *)
(***************************************************************************)
Next ==
    \/ \E total \in FollowedTotals : PlanOk(total)
    \/ PlanFails
    \/ \E t \in DOMAIN tasks : AcquirePage(t)
    \/ \E t \in DOMAIN tasks : PageConnectError(t)
    \/ \E t \in DOMAIN tasks, n \in ProductCounts : PageResponse(t, n)
    \/ \E t \in DOMAIN tasks : AcquireCover(t)
    \/ \E t \in DOMAIN tasks, outcome \in CoverOutcomes : CoverResponse(t, outcome)
    \/ FirstRunDone
    \/ SecondRunDone
    \/ Join

Spec == Init /\ [][Next]_vars

(***************************************************************************)
(* Properties                                                              *)
(***************************************************************************)
\* Requests (page and cover) that are awaiting their response.
Awaiting == {t \in DOMAIN tasks : tasks[t].pc \in {"page_req", "cover_req"}}

\* C1: in every reachable state of main(), the requests awaiting a response,
\* page requests and cover requests together, are at most K.
C1_AwaitingAtMostK == Cardinality(Awaiting) <= limit

\* C1's case: the limiter is exhausted while a cover request is in flight and
\* another page fetch is held back.
C1_Witness ==
    /\ sem = 0
    /\ \E t \in DOMAIN tasks : tasks[t].pc = "cover_req"
    /\ \E t \in DOMAIN tasks : tasks[t].pc = "start"

\* C2: a batch always completes: no state is reachable in which every slot is
\* held by a task that is itself waiting to acquire another slot.
C2_NoSlotDeadlock ==
    ~ /\ Running
      /\ sem = 0
      /\ Awaiting = {}
      /\ \E t \in DOMAIN tasks : tasks[t].pc = "cover_wait"

\* The merged dataset, once join_data_files has written it.
Merged == files[dest_fname].recs

RECURSIVE RecsOfPage(_, _)
RecsOfPage(recs, p) ==
    IF recs = <<>> THEN <<>>
    ELSE IF RecordPage(Head(recs)) = p
         THEN <<Head(recs)>> \o RecsOfPage(Tail(recs), p)
         ELSE RecsOfPage(Tail(recs), p)

FailedFirst(url) ==
    \E a \in DOMAIN first_results :
        UrlOf(first_results[a]) = url /\ ~OkOf(first_results[a])

\* C3: a page that fails in pass 1 and succeeds in pass 2 contributes its
\* records to the merged dataset exactly once, and they are the records the
\* pass-2 fetch returned.
C3_RetriedPageMergedOnce ==
    (mainPc = "done" /\ r) =>
        \A b \in DOMAIN results :
            (FailedFirst(UrlOf(results[b])) /\ OkOf(results[b])) =>
                RecsOfPage(Merged, PageOf(UrlOf(results[b])))
                    = serialize_data(ElemsOf(results[b]))

\* C4: a page that fails in both passes contributes no record to the merged
\* dataset, and its URL is in the missing-pages list reported after the
\* retry pass.
C4_TwiceFailedPageAbsent ==
    mainPc = "done" =>
        \A b \in DOMAIN results :
            (FailedFirst(UrlOf(results[b])) /\ ~OkOf(results[b])) =>
                /\ \E i \in DOMAIN missing_pages : missing_pages[i] = UrlOf(results[b])
                /\ r => RecsOfPage(Merged, PageOf(UrlOf(results[b]))) = <<>>

\* C4's case: a page failed twice, its artifact from an earlier execution was
\* in the directory, and the merge went through with records of another page.
C4_Witness ==
    /\ mainPc = "done"
    /\ r
    /\ Merged # <<>>
    /\ dest_before.present
    /\ \E b \in DOMAIN results :
           /\ FailedFirst(UrlOf(results[b]))
           /\ ~OkOf(results[b])
           /\ RecsOfPage(dest_before.recs, PageOf(UrlOf(results[b]))) # <<>>

\* C5: after pass 1 and pass 2, book_count is the number of BookRecords in
\* the artifacts written in the run: a page in the outputs of both passes is
\* counted once, a page that failed both passes counts zero.
C5_BookCountIsArtifactTotal ==
    mainPc \in {"join", "done"} => b_count = TotalRecs(files, written)

\* C5's case: a page appears in the outputs of both passes (failed, then
\* retrieved with records) beside a page retrieved in pass 1.
C5_Witness ==
    /\ mainPc = "done"
    /\ \E b \in DOMAIN results :
           /\ FailedFirst(UrlOf(results[b]))
           /\ OkOf(results[b])
           /\ ElemsOf(results[b]) # <<>>
    /\ \E a \in DOMAIN first_results :
           OkOf(first_results[a]) /\ ElemsOf(first_results[a]) # <<>>

\* C6: cover_count is the number of cover fetches that succeeded (status 200
\* and file written): one per success, none per failure.
C6_CoverCountIsSuccesses ==
    mainPc \in {"join", "done"} => c_count = covers_fetched

\* C6's case: covers were fetched in both passes, some with success and
\* some without.
C6_Witness ==
    /\ mainPc = "done"
    /\ c_count >= 2
    /\ c_count < b_count
    /\ \E b \in DOMAIN results :
           FailedFirst(UrlOf(results[b])) /\ SumStatuses(ElemsOf(results[b])) >= 1

\* C7: a page whose request succeeded and listed n products returns is_ok
\* true and exactly the n records, whatever its cover fetches did.
C7_CoverFailureKeepsPage ==
    \A t \in DOMAIN tasks :
        (tasks[t].pc = "done" /\ tasks[t].responded) =>
            /\ tasks[t].is_ok
            /\ serialize_data(tasks[t].elems) = tasks[t].products

\* C7's case: a page with two products returned, the cover of one fetched
\* and the cover of the other not.
C7_Witness ==
    \E t \in DOMAIN tasks :
        /\ tasks[t].pc = "done"
        /\ Len(tasks[t].products) = 2
        /\ tasks[t].elems[1][2] = 0
        /\ tasks[t].elems[2][2] = 1

\* C8: the merge concatenates the artifacts in ascending numeric order of
\* page identifier, whatever the order of the directory listing: along the
\* merged dataset the page numbers never decrease.
C8_MergedInNumericOrder ==
    (mainPc = "done" /\ r) =>
        \A i, j \in DOMAIN Merged :
            i < j => RecordPage(Merged[i]) <= RecordPage(Merged[j])

\* C8's case: artifacts 2.json and 10.json, which the lexicographic order
\* puts the other way round, were both merged.
C8_Witness ==
    /\ mainPc = "done"
    /\ r
    /\ \E i, j \in DOMAIN Merged :
           i < j /\ RecordPage(Merged[i]) = 2 /\ RecordPage(Merged[j]) = 10

\* C9: no artifact that the serializer wrote is left out of the merge: every
\* record of every artifact written in the run is in the merged dataset.
C9_EveryWrittenPageMerged ==
    (mainPc = "done" /\ r) =>
        \A n \in written :
            \A i \in DOMAIN files[n].recs :
                \E j \in DOMAIN Merged : Merged[j] = files[n].recs[i]

\* What a call of join_data_files that meets no fault would have written.
CompleteMerge ==
    LET names == {n \in DOMAIN files : Matches(n)}
    IN  [present |-> TRUE,
         recs |-> grouped_data(files, sorted(SomeListing(names))),
         whole |-> TRUE]

\* C10: when join_data_files returns False, the destination holds what it
\* held before the call or the complete merged result, never a cut text.
C10_FailedJoinLeavesDestWhole ==
    (mainPc = "done" /\ ~r) =>
        \/ Snapshot(files, dest_fname) = dest_before
        \/ Snapshot(files, dest_fname) = CompleteMerge

\* C11: after serialize_results, the artifact P.json of every outcome handed
\* to it holds exactly that outcome's BookRecords, in response order and
\* without cover flags; serializing the same outcome again leaves P.json and
\* every other file as they are.
C11_ArtifactHoldsOutcome ==
    mainPc \in {"second_run", "join"} =>
        \A i \in DOMAIN serialized :
            LET elems == ElemsOf(serialized[i])
                P == PageOf(UrlOf(serialized[i]))
                artifact == str(P) \o DotJson
            IN  /\ artifact \in DOMAIN files
                /\ files[artifact].whole
                /\ Len(files[artifact].recs) = Len(elems)
                /\ \A j \in 1..Len(elems) :
                       /\ files[artifact].recs[j] = elems[j][1]
                       /\ files[artifact].recs[j][1] = P
                       /\ files[artifact].recs[j][2] = j
                /\ serialize_files(files, <<serialized[i]>>) = files

\* C11's case: the artifact of a page was there from an earlier execution,
\* was written in the first run (the page had failed) and again in the
\* second, now with two records of which one has no cover.
C11_Witness ==
    /\ mainPc = "join"
    /\ passes = 2
    /\ dest_fname \in DOMAIN files
    /\ \E i \in DOMAIN serialized :
           /\ Len(ElemsOf(serialized[i])) = 2
           /\ SumStatuses(ElemsOf(serialized[i])) = 1

(***************************************************************************)
(* plan() on its own: any ScraperParams, any reported total                *)
(***************************************************************************)
\* Largest of the consecutive totals tried.
MaxPlanTotal == 110

\* Totals reported to plan: 0..MaxPlanTotal, and the 5522 of the script's
\* own comment (line 154).
PlanTotals == (0..MaxPlanTotal) \cup {5522}

\* entries_per_page of the params handed to plan.
PageSizeChoices == {1, 25, 50, 100}

\* Nothing of the pipeline has run.
PipelineIdle ==
    /\ limit = 1
    /\ sem = 1
    /\ num_books = 0
    /\ planned_num_pages = 0
    /\ tracked = {}
    /\ urls = <<>>
    /\ tasks = <<>>
    /\ results = <<>>
    /\ missing_pages = <<>>
    /\ b_count = 0
    /\ c_count = 0
    /\ r = FALSE
    /\ first_results = <<>>
    /\ written = {}
    /\ covers_fetched = 0
    /\ dest_before = NoFile
    /\ serialized = <<>>
    /\ plan_error = FALSE
    /\ fetched = <<>>
    /\ passes = 0
    /\ join_fault = "none"

InitPlan ==
    /\ mainPc = "plan_call"
    /\ sp_entries_per_page \in PageSizeChoices
    /\ files = EmptyDir
    /\ PipelineIdle

\* Lines 119-130: plan(params) returns for a response that reports total.
CallPlan(total) ==
    /\ mainPc = "plan_call"
    /\ num_books' = plan(total)[1]
    /\ planned_num_pages' = plan(total)[2]
    /\ mainPc' = "plan_returned"
    /\ UNCHANGED <<limit, sem, tracked, urls, tasks, results, missing_pages, b_count,
                   c_count, files, r, first_results, written, covers_fetched,
                   dest_before, sp_entries_per_page, serialized, plan_error, fetched,
                   passes, join_fault>>

\* Lines 127-128: ClientConnectorError is printed and plan returns None.
CallPlanNoConnection ==
    /\ mainPc = "plan_call"
    /\ plan_error' = TRUE
    /\ mainPc' = "plan_returned_none"
    /\ UNCHANGED <<limit, sem, num_books, planned_num_pages, tracked, urls, tasks,
                   results, missing_pages, b_count, c_count, files, r, first_results,
                   written, covers_fetched, dest_before, sp_entries_per_page,
                   serialized, fetched, passes, join_fault>>

NextPlan ==
    \/ \E total \in PlanTotals : CallPlan(total)
    \/ CallPlanNoConnection

SpecPlan == InitPlan /\ [][NextPlan]_vars

\* C12: plan(params) returns (total, pages) with pages = ceil(total /
\* page_size), page_size being the entries_per_page of the params handed to
\* plan: the least number of pages of that size that hold total entries.
C12_PagesFromParamsPageSize ==
    mainPc = "plan_returned" =>
        /\ planned_num_pages * sp_entries_per_page >= num_books
        /\ (planned_num_pages - 1) * sp_entries_per_page < num_books
        /\ planned_num_pages >= 0

\* C13: when the reconnaissance request cannot connect or its response lacks
\* the expected fields, the run aborts: no page fetch is issued, no artifact
\* is written, no merge is performed and no page count is assumed.
C13_PlanFailureAborts ==
    plan_error =>
        /\ mainPc = "aborted"
        /\ planned_num_pages = 0
        /\ passes = 0
        /\ urls = <<>>
        /\ tasks = <<>>
        /\ fetched = <<>>
        /\ serialized = <<>>
        /\ written = {}
        /\ dest_before = NoFile
        /\ ~r

\* C13's case: the reconnaissance call failed with the files of an earlier
\* execution in the directory.
C13_Witness ==
    /\ plan_error
    /\ mainPc = "aborted"
    /\ dest_fname \in DOMAIN files

\* C14: a page fetch holds its slot only around its own page request: while
\* a cover fetch of the page holds or waits for a slot, the page fetch holds
\* none, so the slots in use are those of the page requests and of the cover
\* requests in flight, and no more.
C14_PageSlotOnlyAroundRequest ==
    Running => limit - sem <= Cardinality(Awaiting)

\* C15: in the first pass the serializer is invoked only on the retrieved
\* pages: after pass 1 the run has written an artifact for page P only if
\* P's page-level fetch succeeded; a failed page gets none, not even an
\* empty one.
C15_FirstPassWritesOnlyRetrieved ==
    mainPc = "second_run" =>
        /\ \A i \in DOMAIN serialized : OkOf(serialized[i])
        /\ \A a \in DOMAIN first_results :
               page_path(UrlOf(first_results[a])) \in written
                   => OkOf(first_results[a])

\* C16: on a connection failure of a page request the batch still returns
\* one outcome per URL, in the order of the URLs; the failed page's outcome
\* has is_ok false and no record, its request is not issued again within
\* the pass, and the pages that got a response keep is_ok true and their
\* records.
C16_FailedPageOutcome ==
    /\ Running =>
           /\ Len(tasks) = Len(urls)
           /\ \A t \in DOMAIN tasks :
                  /\ tasks[t].url = urls[t]
                  /\ fetched[urls[t]] <= RunNo
                  /\ (tasks[t].pc = "done" /\ ~tasks[t].responded) =>
                         (~tasks[t].is_ok /\ tasks[t].elems = <<>>)
                  /\ (tasks[t].pc = "done" /\ tasks[t].responded) =>
                         /\ tasks[t].is_ok
                         /\ serialize_data(tasks[t].elems) = tasks[t].products
    /\ mainPc = "join" =>
           /\ Len(results) = Len(urls)
           /\ \A i \in DOMAIN results :
                  /\ UrlOf(results[i]) = urls[i]
                  /\ ~OkOf(results[i]) => ElemsOf(results[i]) = <<>>

\* C16's case: a batch of two pages has returned, one page failed on the
\* connection and the other came back with its two records.
C16_Witness ==
    /\ mainPc = "join"
    /\ \E i, j \in DOMAIN results :
           /\ ~OkOf(results[i])
           /\ OkOf(results[j])
           /\ Len(ElemsOf(results[j])) = 2

\* C17: the script makes at most two fetch passes; the second pass is entered
\* exactly when the first pass left a page missing; every URL is requested
\* at most twice; once the second pass is over (or was not needed) no fetch
\* is pending or can start any more.
C17_AtMostTwoPasses ==
    /\ passes <= 2
    /\ \A u \in DOMAIN fetched : fetched[u] <= 2
    /\ mainPc = "first_run" => passes = 1
    /\ mainPc = "second_run" => passes = 2
    /\ mainPc \in {"second_run", "join", "done"} =>
           (passes = 2 <=> \E a \in DOMAIN first_results : ~OkOf(first_results[a]))
    /\ mainPc \in {"join", "done"} =>
           /\ tasks = <<>>
           /\ \A t \in 1..MaxTracked : ~ENABLED AcquirePage(t)

\* C17's case: the script is over after two passes, a page was requested
\* twice and is still missing.
C17_Witness ==
    /\ mainPc = "done"
    /\ passes = 2
    /\ missing_pages # <<>>
    /\ \E u \in DOMAIN fetched : fetched[u] = 2

\* C18: the second run is launched on exactly the URLs whose outcome in the
\* first run was not ok, and serializes only those of them that it
\* retrieved; a page retrieved in the first run is requested once in all and
\* its artifact still holds what the first run wrote.
FirstPassArtifact(a) ==
    FileOf(serialize_data(ElemsOf(first_results[a])))

C18_RetryOnlyFailed ==
    /\ mainPc = "second_run" =>
           /\ urls = MissingOf(first_results)
           /\ Len(tasks) = Len(urls)
           /\ \A t \in DOMAIN tasks : tasks[t].url = urls[t]
    /\ (passes = 2 /\ mainPc \in {"second_run", "join", "done"}) =>
           \A a \in DOMAIN first_results :
               OkOf(first_results[a]) =>
                   /\ fetched[UrlOf(first_results[a])] = 1
                   /\ page_path(UrlOf(first_results[a])) \in DOMAIN files
                   /\ files[page_path(UrlOf(first_results[a]))] = FirstPassArtifact(a)
    /\ (passes = 2 /\ mainPc \in {"join", "done"}) =>
           /\ \A a \in DOMAIN first_results :
                  ~OkOf(first_results[a]) => fetched[UrlOf(first_results[a])] = 2
           /\ \A i \in DOMAIN serialized :
                  /\ OkOf(serialized[i])
                  /\ \E a \in DOMAIN first_results :
                         /\ ~OkOf(first_results[a])
                         /\ UrlOf(first_results[a]) = UrlOf(serialized[i])
                  /\ \E j \in DOMAIN results : results[j] = serialized[i]

\* C18's case: the first run retrieved one page with records and missed
\* another, which the second run then retrieved and serialized.
C18_Witness ==
    /\ mainPc = "join"
    /\ passes = 2
    /\ serialized # <<>>
    /\ \E a \in DOMAIN first_results :
           /\ OkOf(first_results[a])
           /\ Len(ElemsOf(first_results[a])) = 2

(***************************************************************************)
(* join_data_files on its own: directories that also hold other files      *)
(***************************************************************************)
\* The pages whose artifact the directory may hold.
JoinPages == {1, 2, 10}

\* Names in the directory that are not artifacts of a page: a backup copy of
\* an artifact, a name without the dot, the merged dataset of an earlier
\* execution.
BackupName == str(1) \o DotJson \o <<".", "b", "a", "k">>

NoDotName == str(12) \o <<"x", "j", "s", "o", "n">>

ForeignNames == {BackupName, NoDotName, dest_fname}

\* A directory with the artifacts of pages and the files named in foreign;
\* every file holds one record, a foreign one a record of no page.
JoinDir(pages, foreign) ==
    [n \in {str(p) \o DotJson : p \in pages} \cup foreign |->
        IF n \in foreign
        THEN FileOf(<<BookRecord(0, 1, 0)>>)
        ELSE FileOf(<<BookRecord(fname_to_int(n), 1, 0)>>)]

\* The script stands before line 180.
InitJoin ==
    /\ mainPc = "join"
    /\ sp_entries_per_page = entries_per_page
    /\ \E pages \in SUBSET JoinPages, foreign \in SUBSET ForeignNames :
           files = JoinDir(pages, foreign)
    /\ PipelineIdle

NextJoin == Join

SpecJoin == InitJoin /\ [][NextJoin]_vars

\* A name that is, as a whole, one to three digits followed by '.json'.
WholeNameIsPage(name) ==
    \E k \in 1..3 :
        /\ Len(name) = k + Len(DotJson)
        /\ \A j \in 1..k : IsDigit(name[j])
        /\ SubSeq(name, k + 1, Len(name)) = DotJson

\* C19: join_data_files consumes only the files whose whole name is one to
\* three digits followed by '.json'; with no I/O fault, whatever else the
\* directory holds, the call returns True and the merged file holds the
\* records of exactly those files, in numeric order.
C19_OtherNamesIgnored ==
    (mainPc = "done" /\ join_fault = "none") =>
        LET consumed == {n \in DOMAIN files : WholeNameIsPage(n)}
        IN  /\ r
            /\ dest_fname \in DOMAIN files
            /\ files[dest_fname] =
                   FileOf(grouped_data(files, sorted(SomeListing(consumed))))

====
